---- MODULE Spec2Model ----
(***************************************************************************)
(* The dual-path polling watcher of ODATANO-WATCH (src/src/watcher.ts):    *)
(* the supervisor (start/stop and the per-path starts and stops), the two  *)
(* interval timers, the scans they and manualPoll run, the store rows the  *)
(* scans read and write, and the provider the scans query; around it the   *)
(* plugin that initializes the watcher (index.ts, plugin.ts), the provider *)
(* client (blockfrost.ts) and the normalization of provider errors.        *)
(*                                                                         *)
(* JavaScript runs one callback at a time; a scan gives way to other       *)
(* callbacks only at an await on the store, the provider or the event bus. *)
(* Every action below is one such uninterrupted stretch of code.  An await *)
(* on a promise that is already settled (await stopAddressPolling()) is    *)
(* resumed before any timer or I/O callback and is part of the stretch.    *)
(***************************************************************************)
EXTENDS Integers, Sequences, FiniteSets, Bags, TLC

\* ------------------------------------------------------------------ bounds
MaxScans == 2      \* scans in flight at the same time
MaxTx    == 2      \* height the chain can reach; transaction t is in block t
MaxCount == 2      \* cap of the insert and emit counters
MaxCalls == 2      \* calls of initialize() and 'served' events of the plugin

\* ------------------------------------------------------------- value sets
Null   == "null"     \* a null handle or status
NoBlock == 0 - 1     \* a null lastCheckedBlock
Paths  == {"address", "transaction"}
Addrs  == {"a1", "a2"}
Hashes == {"h1", "h2"}
TxIds  == 1..MaxTx
Statuses == {"PENDING", "CONFIRMED", "FAILED"}
Callers == 1..MaxCalls
Signals == {"SIGTERM", "SIGINT"}
\* the fields of config.get() that setup() and initializeClient read
Configs == [blockfrostProjectId : {Null, "p1"}, blockfrostApiKey : {Null, "k1"},
            network : {"mainnet", "preprod"}, autoStart : BOOLEAN]
\* blockfrostClient = null
NoClient == [id |-> 0, projectId |-> Null, network |-> Null]

VARIABLES
    isRunning, addressPollingActive, transactionPollingActive,
    addressInterval, transactionInterval,
    timers,          \* live interval timers of each path (setInterval not yet cleared)
    cfg,             \* config.get(): which paths are enabled
    env,             \* which collaborators can fail in this run ("provider", "store",
                     \* "bus"), and whether an operator sets statuses ("admin")
    tip,             \* height of the chain the provider sees
    wa,              \* odatano.watch.WatchedAddress rows
    subs,            \* odatano.watch.TransactionSubmission rows
    events,          \* BlockchainEvent rows of type TRANSACTION per address and transaction
    txRows,          \* odatano.watch.Transaction rows per address and transaction
    subEvents,       \* BlockchainEvent rows of type TX_CONFIRMED per submission
    emitsNew,        \* cardano.newTransactions notifications per address
    emitsConfirmed,  \* cardano.transactionConfirmed notifications per submission
    scans,           \* the scans in flight: a bag of scan records
    lastNew,         \* payload of the latest cardano.newTransactions notification
    stopped,         \* stop() has returned and no start has been invoked since
    warned,          \* "Watcher is already running" has been logged
    skipped,         \* a path start called from outside has returned at once,
                     \* its path being active: the call leaves no trace in the
                     \* program, so the specification that looks at these
                     \* calls (SpecControl) keeps the record, not the action
    configuration,   \* config.ts: the configuration config.get() returns
    blockfrostClient,\* blockfrost.ts: the client, or NoClient
    constructed,     \* BlockFrostAPI clients constructed so far
    handle,          \* what the latest initializeClient call returned
    handlers,        \* listeners registered with process.on, per signal
    initialized,     \* index.ts: initialized
    pluginInitialized, \* plugin.ts: initialized
    calls,           \* where each initialize() call or 'served' handler stands
    setupRuns,       \* executions of config.initialize and watcher.setup
    pluginRuns,      \* calls of initialize() made by the 'served' handler
    err,             \* the error a provider call has thrown
    normalized       \* what normalizeBackendError has made of it

supVars   == <<isRunning, addressPollingActive, transactionPollingActive,
               addressInterval, transactionInterval, timers>>
storeVars == <<wa, subs, events, txRows, subEvents>>
busVars   == <<emitsNew, emitsConfirmed, lastNew>>
procVars  == <<configuration, blockfrostClient, constructed, handle, handlers,
               initialized, pluginInitialized, calls, setupRuns, pluginRuns>>
errVars   == <<err, normalized>>
envVars   == <<cfg, env, procVars, errVars>>
vars == <<supVars, storeVars, busVars, envVars, tip, scans, stopped, warned, skipped>>

\* ------------------------------------------------------------------ scans
\* A scan in flight: where it stands (pc), its path, who awaits it (origin),
\* the rows it has read and not yet finished (the head is the row at work),
\* the provider's answer for that row (txs in the provider's order), the
\* scan's eventsDetected (count) and, in manualPoll, the count of the address
\* scan that went before (addressEvents).  A scan that has returned or thrown
\* stays until its caller has resumed.
\* pollWatchedAddresses / pollTransactionSubmissions entered, SELECT not yet answered
NewScan(p, o, n) == [pc |-> "select", path |-> p, origin |-> o, rows |-> <<>>,
                     txs |-> <<>>, txInfo |-> "-", count |-> 0, addressEvents |-> n]

NoScans == EmptyBag
Running == BagToSet(scans)
Ended(sc) == sc.pc \in {"return", "throw"}
InFlight(p) ==
    BagCardinality([sc \in {x \in Running : x.path = p /\ ~Ended(x)} |-> scans[sc]])
Scheduled(p) ==
    BagCardinality([sc \in {x \in Running : /\ x.path = p /\ ~Ended(x)
                                             /\ x.origin # "manualPoll"}
                       |-> scans[sc]])
Room == BagCardinality(scans) < MaxScans

\* the bag of scans with one more scan, one scan less, one scan moved on
Added(new) == scans (+) SetToBag({new})
Removed(sc) == scans (-) SetToBag({sc})
Moved(sc, new) == (scans (-) SetToBag({sc})) (+) SetToBag({new})

\* ------------------------------------------------------------- supervisor
Sup == [isRunning |-> isRunning,
        addressPollingActive |-> addressPollingActive,
        transactionPollingActive |-> transactionPollingActive,
        addressInterval |-> addressInterval,
        transactionInterval |-> transactionInterval,
        timers |-> timers]

SetSup(st) ==
    /\ isRunning' = st.isRunning
    /\ addressPollingActive' = st.addressPollingActive
    /\ transactionPollingActive' = st.transactionPollingActive
    /\ addressInterval' = st.addressInterval
    /\ transactionInterval' = st.transactionInterval
    /\ timers' = st.timers

\* clearInterval(h): a null handle clears nothing
clearInterval(st, p, h) ==
    IF h = Null \/ st.timers[p] = 0 THEN st
    ELSE [st EXCEPT !.timers[p] = @ - 1]

\* startAddressPolling up to its await: the flag, then setInterval
ActivateAddress(st) ==
    [st EXCEPT !.addressPollingActive = TRUE,
               !.addressInterval = "timer",
               !.timers["address"] = @ + 1]

\* startTransactionPolling up to its await
ActivateTransaction(st) ==
    [st EXCEPT !.transactionPollingActive = TRUE,
               !.transactionInterval = "timer",
               !.timers["transaction"] = @ + 1]

\* a stop of the address path that clears the timer and keeps its handle
stopAddressPollingKeepsHandle(st) ==
    IF ~st.addressPollingActive THEN st
    ELSE [clearInterval(st, "address", st.addressInterval)
            EXCEPT !.addressPollingActive = FALSE]

\* stopAddressPolling: clearInterval, the handle set to null, the flag reset
stopAddressPolling(st) ==
    IF ~st.addressPollingActive THEN st
    ELSE [clearInterval(st, "address", st.addressInterval)
            EXCEPT !.addressInterval = Null, !.addressPollingActive = FALSE]

\* a stop of the transaction path that stops the address path with it
stopTransactionPollingAll(st) ==
    [clearInterval(clearInterval(st, "transaction", st.transactionInterval),
                   "address", st.addressInterval)
        EXCEPT !.transactionInterval = Null, !.transactionPollingActive = FALSE,
               !.addressInterval = Null, !.addressPollingActive = FALSE]

stopTransactionPolling(st) ==
    IF ~st.transactionPollingActive THEN st
    ELSE [clearInterval(st, "transaction", st.transactionInterval)
            EXCEPT !.transactionInterval = Null, !.transactionPollingActive = FALSE]

\* ------------------------------------------------ errors of the provider
\* What an error message is made of.  A message is a sequence of these pieces;
\* a regular expression of the code matches a message when it matches one of
\* its pieces.
Pieces == {"rate limit", "Too Many Requests", "not found", "timeout",
           "ENOTFOUND", "boom"}
MaxPieces == 2
Messages == UNION {[1..n -> Pieces] : n \in 0..MaxPieces}

\* the i flag of the regular expressions
LowerCase(piece) ==
    CASE piece = "Too Many Requests" -> "too many requests"
      [] piece = "ENOTFOUND" -> "enotfound"
      [] OTHER -> piece

\* /a|b|.../i.test(message)
Test(alternatives, message) ==
    \E i \in DOMAIN message : LowerCase(message[i]) \in alternatives

\* an error: a raw one (class "Error") as a provider call throws it, with
\* its status in response.status, status or statusCode (0: the field is
\* absent), or a BackendError
ErrorRecord(class, responseStatus, status, statusCode, message, code, isRetryable) ==
    [class |-> class, responseStatus |-> responseStatus, status |-> status,
     statusCode |-> statusCode, message |-> message, code |-> code,
     isRetryable |-> isRetryable]

NotFoundError(message) ==
    ErrorRecord("NotFoundError", 0, 0, 404, message, "WATCHER_NOT_FOUND", FALSE)
ProviderUnavailableError(message) ==
    ErrorRecord("ProviderUnavailableError", 0, 0, 503, message,
                "WATCHER_PROVIDER_UNAVAILABLE", TRUE)
RateLimitError(message) ==
    ErrorRecord("RateLimitError", 0, 0, 429, message,
                "WATCHER_PROVIDER_RATE_LIMITED", TRUE)
BackendInitError(message) ==
    ErrorRecord("BackendInitError", 0, 0, 500, message, "WATCHER_INTERNAL_ERROR",
                FALSE)

\* err instanceof BackendError
IsBackendError(e) == e.class # "Error"

RawErrors ==
    {ErrorRecord("Error", rs, st, sc, m, code, FALSE) :
        rs \in {0, 400, 404, 429, 499, 500, 599}, st \in {0, 404, 500},
        sc \in {0, 429}, m \in Messages,
        code \in {"-", "ECONNREFUSED", "ETIMEDOUT"}}

BackendErrors ==
    {NotFoundError(<<"boom">>), ProviderUnavailableError(<<"not found">>),
     RateLimitError(<<"boom">>), BackendInitError(<<"rate limit">>)}

NoError == ErrorRecord("-", 0, 0, 0, <<>>, "-", FALSE)

\* (err as Error).message || 'Unknown error'
MessageOf(e) == IF e.message = <<>> THEN <<"Unknown error">> ELSE e.message

\* err.response?.status || err.status || err.statusCode
StatusCodeOf(e) ==
    IF e.responseStatus # 0 THEN e.responseStatus
    ELSE IF e.status # 0 THEN e.status
    ELSE e.statusCode

\* a normalizer that looks for 'not found' before it looks for a rate limit
normalizeBackendErrorNotFoundFirst(e) ==
    LET message    == MessageOf(e)
        statusCode == StatusCodeOf(e)
    IN
    IF IsBackendError(e) THEN e
    ELSE IF statusCode = 404 \/ Test({"not found"}, message)
    THEN NotFoundError(message)
    ELSE IF statusCode = 429 \/ Test({"rate limit", "too many requests"}, message)
    THEN RateLimitError(message)
    ELSE IF statusCode # 0 /\ statusCode >= 500 /\ statusCode < 600
    THEN ProviderUnavailableError(message)
    ELSE IF statusCode # 0 /\ statusCode >= 400 /\ statusCode < 500
    THEN IF Test({"not found"}, message) THEN NotFoundError(message)
         ELSE ProviderUnavailableError(message)
    ELSE IF \/ Test({"timeout", "network", "econnrefused", "enotfound"}, message)
            \/ e.code = "ECONNREFUSED"
            \/ e.code = "ETIMEDOUT"
    THEN ProviderUnavailableError(message)
    ELSE ProviderUnavailableError(<<"Unknown error:">> \o message)

\* normalizeBackendError(err): admin-service.ts:391-445
normalizeBackendError(e) ==
    LET message    == MessageOf(e)
        statusCode == StatusCodeOf(e)
    IN
    IF IsBackendError(e) THEN e
    ELSE IF statusCode = 429 \/ Test({"rate limit", "too many requests"}, message)
    THEN RateLimitError(message)
    ELSE IF statusCode = 404 \/ Test({"not found"}, message)
    THEN NotFoundError(message)
    ELSE IF statusCode # 0 /\ statusCode >= 500 /\ statusCode < 600
    THEN ProviderUnavailableError(message)
    ELSE IF statusCode # 0 /\ statusCode >= 400 /\ statusCode < 500
    THEN IF Test({"not found"}, message) THEN NotFoundError(message)
         ELSE ProviderUnavailableError(message)
    ELSE IF \/ Test({"timeout", "network", "econnrefused", "enotfound"}, message)
            \/ e.code = "ECONNREFUSED"
            \/ e.code = "ETIMEDOUT"
    THEN ProviderUnavailableError(message)
    ELSE ProviderUnavailableError(<<"Unknown error:">> \o message)

\* ------------------------------------------------------------------- Init
\* the module state of watcher.ts:9-16: nothing runs, no timer, no scan
InitIdle ==
    /\ isRunning = FALSE
    /\ addressPollingActive = FALSE
    /\ transactionPollingActive = FALSE
    /\ addressInterval = Null
    /\ transactionInterval = Null
    /\ timers = [p \in Paths |-> 0]
    /\ scans = NoScans
    /\ stopped = FALSE
    /\ warned = FALSE
    /\ skipped = FALSE

\* no event has been recorded and none notified
NothingRecorded ==
    /\ events = [a \in Addrs |-> [t \in TxIds |-> 0]]
    /\ txRows = [a \in Addrs |-> [t \in TxIds |-> 0]]
    /\ subEvents = [h \in Hashes |-> 0]
    /\ emitsNew = [a \in Addrs |-> 0]
    /\ emitsConfirmed = [h \in Hashes |-> 0]
    /\ lastNew = [address |-> Null, count |-> 0, transactions |-> <<>>]

\* The module state of watcher.ts:9-16 and an empty log of events and
\* notifications.  The store holds one active row, a watched address as
\* addWatchedAddress inserts it or a submission as submitAndTrackTransaction
\* inserts it; the other rows have been deactivated by removeWatch.
InitModule ==
    /\ InitIdle
    /\ NothingRecorded

\* the modules as they are loaded: no client, no listener, nothing initialized
Loaded ==
    /\ blockfrostClient = NoClient
    /\ constructed = 0
    /\ handle = NoClient
    /\ handlers = [s \in Signals |-> 0]
    /\ initialized = FALSE
    /\ pluginInitialized = FALSE
    /\ calls = [c \in Callers |-> [pc |-> "idle", served |-> FALSE]]
    /\ setupRuns = 0
    /\ pluginRuns = 0

\* the modules after the plugin's 'served' handler has initialized them once,
\* with a project id and autoStart switched off
SetUp ==
    /\ configuration = [blockfrostProjectId |-> "p1", blockfrostApiKey |-> Null,
                        network |-> "mainnet", autoStart |-> FALSE]
    /\ blockfrostClient = [id |-> 1, projectId |-> "p1", network |-> "mainnet"]
    /\ constructed = 1
    /\ handle = blockfrostClient
    /\ handlers = [s \in Signals |-> 1]
    /\ initialized = TRUE
    /\ pluginInitialized = TRUE
    /\ calls = [c \in Callers |-> [pc |-> "done", served |-> c = 1]]
    /\ setupRuns = 1
    /\ pluginRuns = 1

\* no provider call has thrown
NothingThrown ==
    /\ err = NoError
    /\ normalized = NoError

\* the watcher of the polling specifications: set up, not started
InitWatcher ==
    /\ InitModule
    /\ SetUp
    /\ NothingThrown

InitRows(rows) ==
    /\ wa = [a \in Addrs |-> [active |-> a \in rows, lastCheckedBlock |-> NoBlock]]
    /\ subs = [h \in Hashes |-> [active |-> h \in rows, currentStatus |-> "PENDING"]]

OneRow == {{"a1"}, {"h1"}}

\* every exported call, on a chain that stands at block 1 and collaborators
\* that do not fail
Init ==
    /\ InitWatcher
    /\ \E rows \in OneRow : InitRows(rows)
    /\ cfg \in [addressPolling : BOOLEAN, transactionPolling : BOOLEAN]
    /\ env = {}
    /\ tip = 1

\* the pollers at work: both paths enabled, a growing chain, and one kind of
\* failing collaborator (or an operator who sets statuses by hand) per run
EnvChoices == {{}, {"provider"}, {"store"}, {"bus"}, {"admin"}}

InitPolling ==
    /\ InitWatcher
    /\ \E rows \in OneRow : InitRows(rows)
    /\ cfg = [addressPolling |-> TRUE, transactionPolling |-> TRUE]
    /\ env \in EnvChoices
    /\ tip = 0

\* ------------------------------------------------------------ the provider
\* blockfrost.isAvailable()
isAvailable == blockfrostClient # NoClient

BlockOf(t) == t                                  \* block height of transaction t
InclusionBlock(h) == IF h = "h1" THEN 1 ELSE 2   \* block that includes submission h

\* count: 100 of the listing
count == 100

\* the transactions the address has on chain before transaction 1, all of
\* them in the blocks up to block 1: none, or one short of a page in the runs
\* of an address with a long history
Earlier == IF "history" \in env THEN count - 1 ELSE 0

\* blockfrostClient.addressesTransactions(address, { order: "asc", count: 100 }):
\* the transactions of the first page, oldest first; no other page is asked for
Listed == {t \in 1..tip : Earlier + t <= count}

\* a filter that lets nothing pass for an address without a checkpoint
NewerThanSeeded(fromBlock) ==
    {t \in 1..tip : fromBlock # NoBlock /\ ~(fromBlock # 0 /\ BlockOf(t) <= fromBlock)}

\* blockfrost.fetchAddressTransactions: the listed transactions that pass
\* `if (fromBlock && txDetails.block_height <= fromBlock) continue`
NewerThan(fromBlock) ==
    {t \in 1..tip : ~(fromBlock # NoBlock /\ fromBlock # 0 /\ BlockOf(t) <= fromBlock)}

\* the provider lists with order: "asc"
RECURSIVE Asc(_)
Asc(S) ==
    IF S = {} THEN <<>>
    ELSE LET m == CHOOSE x \in S : \A y \in S : x <= y
         IN  <<m>> \o Asc(S \ {m})

\* a fetchAddressTransactions that does not look at fromBlock
FetchResultsUnfiltered(fromBlock) ==
    IF ~isAvailable THEN {<<>>}
    ELSE {Asc(S) : S \in IF "provider" \in env THEN SUBSET Listed
                         ELSE {Listed}}

\* the lists fetchAddressTransactions can return: the transactions of the
\* page that pass the filter; a transaction whose detail fetch throws is logged
\* and left out of the list
FetchResults(fromBlock) ==
    IF ~isAvailable THEN {<<>>}
    ELSE {Asc(S) : S \in IF "provider" \in env
                         THEN SUBSET (Listed \cap NewerThan(fromBlock))
                         ELSE {Listed \cap NewerThan(fromBlock)}}

\* the TransactionData pushed for transaction t
TransactionData(t) == [txHash |-> t, blockNumber |-> BlockOf(t)]

\* getTransaction: the TransactionInfo, or null when the provider call failed
\* for any reason (the transaction is not on chain, or a backend error)
TxInfoResults(h) ==
    IF ~isAvailable \/ tip < InclusionBlock(h) THEN {"null"}
    ELSE IF "provider" \in env THEN {"found", "null"} ELSE {"found"}

\* -------------------------------------------------------------- the store
AddrOrder == <<"a1", "a2">>
HashOrder == <<"h1", "h2">>

IsActiveAddr(a) == wa[a].active
IsActiveSub(h) == subs[h].active

\* SELECT.from(WatchedAddress).where({ active: true })
SelectWatchedAddresses ==
    LET keys == SelectSeq(AddrOrder, IsActiveAddr)
    IN  [i \in 1..Len(keys) |->
            [key |-> keys[i], lastCheckedBlock |-> wa[keys[i]].lastCheckedBlock,
             currentStatus |-> "-"]]

\* SELECT.from(TransactionSubmission).where({ active: true })
SelectSubmissions ==
    LET keys == SelectSeq(HashOrder, IsActiveSub)
    IN  [i \in 1..Len(keys) |->
            [key |-> keys[i], lastCheckedBlock |-> NoBlock,
             currentStatus |-> subs[keys[i]].currentStatus]]

\* Math.max() of no arguments is -Infinity
MinusInfinity == 0 - 2

\* Math.max(...transactions.map(t => t.blockNumber))
MaxBlock(transactions) ==
    LET blocks == {TransactionData(transactions[i]).blockNumber :
                      i \in DOMAIN transactions}
    IN  IF blocks = {} THEN MinusInfinity
        ELSE CHOOSE b \in blocks : \A c \in blocks : c <= b

\* the guard left out: an empty list is processed like any other
hasTransactionsUnchecked(transactions) == TRUE

\* transactions && transactions.length > 0
hasTransactions(transactions) == Len(transactions) > 0

\* a checkpoint update after every pair of inserts
AddressTxPerItem(transactions) ==
    [i \in 1..(3 * Len(transactions)) |->
        LET t == TransactionData(transactions[(i + 2) \div 3]) IN
        IF i % 3 = 1 THEN [op |-> "INSERT", entity |-> "BlockchainEvent",
                           txHash |-> t.txHash, block |-> t.blockNumber]
        ELSE IF i % 3 = 2 THEN [op |-> "INSERT", entity |-> "Transaction",
                                txHash |-> t.txHash, block |-> t.blockNumber]
        ELSE [op |-> "UPDATE", entity |-> "WatchedAddress",
              txHash |-> 0, block |-> t.blockNumber]]

\* the statements of the cds.tx of processAddress, in the order they are run:
\* two inserts per transaction, then the update of the checkpoint
AddressTx(transactions) ==
    [i \in 1..(2 * Len(transactions)) |->
        LET t == TransactionData(transactions[(i + 1) \div 2]) IN
        [op |-> "INSERT",
         entity |-> IF i % 2 = 1 THEN "BlockchainEvent" ELSE "Transaction",
         txHash |-> t.txHash, block |-> t.blockNumber]]
    \o <<[op |-> "UPDATE", entity |-> "WatchedAddress",
          txHash |-> 0, block |-> MaxBlock(transactions)]>>

\* the rows of an entity the statements insert for transaction t
Inserts(stmts, entity, t) ==
    Cardinality({i \in DOMAIN stmts : /\ stmts[i].op = "INSERT"
                                      /\ stmts[i].entity = entity
                                      /\ stmts[i].txHash = t})

\* the updates of the checkpoint among the statements
Updates(stmts) == {i \in DOMAIN stmts : stmts[i].op = "UPDATE"}

\* a cds.tx whose update of the checkpoint is lost
CheckpointKept(stmts, current) == current

\* the checkpoint once the statements have run: the last update wins
Checkpoint(stmts, current) ==
    IF Updates(stmts) = {} THEN current
    ELSE stmts[CHOOSE i \in Updates(stmts) : \A j \in Updates(stmts) : j <= i].block

\* a cds.tx of the confirmation that inserts the event and leaves the status
ConfirmTxEventOnly(h) ==
    <<[op |-> "INSERT", entity |-> "BlockchainEvent",
       txHash |-> h, block |-> InclusionBlock(h)]>>

\* the statements of the cds.tx that confirms submission h, in the order they
\* are run: the update of the status, then the insert of the event
ConfirmTx(h) ==
    <<[op |-> "UPDATE", entity |-> "TransactionSubmission",
       txHash |-> h, block |-> InclusionBlock(h)],
      [op |-> "INSERT", entity |-> "BlockchainEvent",
       txHash |-> h, block |-> InclusionBlock(h)]>>

\* a cds.tx that keeps what has run before the statement that throws
cdsTxAutocommit(stmts, failsAt) ==
    IF failsAt = 0 THEN stmts ELSE SubSeq(stmts, 1, failsAt - 1)

\* await cds.tx(async (tx) => { ... }): the statements that take effect when
\* statement failsAt throws (0: none throws).  The callback awaits each
\* tx.run, so the first rejection leaves it and the transaction is rolled
\* back; it is committed when the callback returns.
cdsTx(stmts, failsAt) ==
    IF failsAt = 0 THEN stmts ELSE <<>>

\* a payload that lists the transactions latest first
NewTransactionsReversed(address, transactions) ==
    [address |-> address,
     count |-> Len(transactions),
     transactions |-> [i \in DOMAIN transactions |->
                          TransactionData(
                              transactions[Len(transactions) + 1 - i]).txHash]]

\* the payload of cardano.newTransactions
NewTransactions(address, transactions) ==
    [address |-> address,
     count |-> Len(transactions),
     transactions |-> [i \in DOMAIN transactions |->
                          TransactionData(transactions[i]).txHash]]

\* the check of the provider's answer left out: none is taken as found
inNetworkUnchecked(txInfo) == TRUE

\* !txInfo is false
inNetwork(txInfo) == txInfo # "null"

\* the status check left out: every found submission is taken as pending
wasPendingUnchecked(submission) == TRUE

wasPending(submission) == submission.currentStatus \in {"PENDING", Null}

\* ------------------------------------------------- the end of a scan's row
\* the scan goes on: nothing of the supervisor changes
Goes(sc, new) ==
    /\ scans' = Moved(sc, new)
    /\ UNCHANGED supVars

\* a manualPoll that returns the count of its transaction scan alone
RepliedTransactionOnly(sc, ok, total) ==
    [sc EXCEPT !.pc = IF ok THEN "return" ELSE "throw",
               !.rows = <<>>, !.txs = <<>>, !.txInfo = "-",
               !.count = total - sc.addressEvents]

\* manualPoll has returned its eventsDetected, or has thrown, and its caller
\* has not taken the result yet
Replied(sc, ok, total) ==
    [sc EXCEPT !.pc = IF ok THEN "return" ELSE "throw",
               !.rows = <<>>, !.txs = <<>>, !.txInfo = "-", !.count = total]

\* What the caller of scan sc does when the scan returns n events (ok) or
\* throws: start() goes on to the transaction path, manualPoll goes on to the
\* transaction scan or returns the sum; a timer callback and a path start
\* called from outside drop the count.
Finish(sc, ok, n) ==
    IF sc.origin = "start" /\ sc.path = "address"
         /\ cfg.transactionPolling /\ ~transactionPollingActive
    THEN \* start() resumes and calls startTransactionPolling()
         /\ SetSup(ActivateTransaction(Sup))
         /\ scans' = Moved(sc, NewScan("transaction", "start", 0))
    ELSE IF sc.origin = "manualPoll" /\ sc.path = "address" /\ ok
    THEN \* manualPoll goes on to pollTransactionSubmissions()
         Goes(sc, NewScan("transaction", "manualPoll", n))
    ELSE IF sc.origin = "manualPoll"
    THEN Goes(sc, Replied(sc, ok, sc.addressEvents + n))
    ELSE /\ scans' = Removed(sc)
         /\ UNCHANGED supVars

\* eventsDetected += events: the for loop goes to the next row, or the scan
\* returns its eventsDetected
AfterRow(sc, n) ==
    IF Len(sc.rows) > 1
    THEN Goes(sc, [sc EXCEPT !.pc = "fetch", !.rows = Tail(@), !.txs = <<>>,
                             !.txInfo = "-", !.count = @ + n])
    ELSE Finish(sc, TRUE, sc.count + n)

\* ------------------------------------------------------ the steps of a scan
\* a scan that returns 0 when its SELECT fails
SelectFailsSwallowed(sc) ==
    /\ "store" \in env
    /\ Finish(sc, TRUE, 0)

\* the SELECT of the active rows fails: the scan logs and throws to its caller
SelectFails(sc) ==
    /\ "store" \in env
    /\ Finish(sc, FALSE, 0)

\* the SELECT of the active rows is answered
ScanSelect(sc) ==
    /\ sc.pc = "select"
    /\ \/ LET rows == IF sc.path = "address" THEN SelectWatchedAddresses
                      ELSE SelectSubmissions
          IN  IF rows = <<>> THEN Finish(sc, TRUE, 0)
              ELSE Goes(sc, [sc EXCEPT !.pc = "fetch", !.rows = rows])
       \/ SelectFails(sc)
    /\ UNCHANGED <<storeVars, busVars, envVars, tip, stopped, warned, skipped>>

\* processAddress once the provider has answered with a list
FetchAddressAnswer(sc, transactions) ==
    IF hasTransactions(transactions)
    THEN Goes(sc, [sc EXCEPT !.pc = "persist", !.txs = transactions])
    ELSE AfterRow(sc, 0)

\* processAddress up to the provider's answer
FetchAddress(sc) ==
    /\ sc.pc = "fetch" /\ sc.path = "address"
    /\ \/ \E transactions \in FetchResults(Head(sc.rows).lastCheckedBlock) :
             FetchAddressAnswer(sc, transactions)
       \/ /\ "provider" \in env       \* the listing throws: caught at the row
          /\ AfterRow(sc, 0)
    /\ UNCHANGED <<storeVars, busVars, envVars, tip, stopped, warned, skipped>>

\* processTransactionSubmission up to the provider's answer
FetchSubmission(sc) ==
    /\ sc.pc = "fetch" /\ sc.path = "transaction"
    /\ \E info \in TxInfoResults(Head(sc.rows).key) :
          Goes(sc, [sc EXCEPT !.pc = "persist", !.txInfo = info])
    /\ UNCHANGED <<storeVars, busVars, envVars, tip, stopped, warned, skipped>>

\* a processAddress that goes on to its emit when the cds.tx has failed
PersistAddressUncaught(sc) ==
    LET a     == Head(sc.rows).key
        stmts == AddressTx(sc.txs)
    IN
    /\ sc.pc = "persist" /\ sc.path = "address"
    /\ \E failsAt \in 0..Len(stmts) :
          LET done == cdsTx(stmts, failsAt) IN
          /\ failsAt # 0 => "store" \in env
          /\ \A t \in TxIds :
                events[a][t] + Inserts(done, "BlockchainEvent", t) <= MaxCount
          /\ events' = [events EXCEPT ![a] = [t \in TxIds |->
                            @[t] + Inserts(done, "BlockchainEvent", t)]]
          /\ txRows' = [txRows EXCEPT ![a] = [t \in TxIds |->
                            @[t] + Inserts(done, "Transaction", t)]]
          /\ wa' = [wa EXCEPT ![a].lastCheckedBlock = Checkpoint(done, @)]
          /\ Goes(sc, [sc EXCEPT !.pc = "emit"])
          /\ UNCHANGED <<subs, subEvents>>
    /\ UNCHANGED <<busVars, envVars, tip, stopped, warned, skipped>>

\* the cds.tx of processAddress: the inserts and the checkpoint update.
\* eventsDetected has been set before it is entered.
PersistAddress(sc) ==
    LET a     == Head(sc.rows).key
        stmts == AddressTx(sc.txs)
    IN
    /\ sc.pc = "persist" /\ sc.path = "address"
    /\ \E failsAt \in 0..Len(stmts) :
          LET done == cdsTx(stmts, failsAt) IN
          /\ failsAt # 0 => "store" \in env
          /\ \A t \in TxIds :
                events[a][t] + Inserts(done, "BlockchainEvent", t) <= MaxCount
          /\ events' = [events EXCEPT ![a] = [t \in TxIds |->
                            @[t] + Inserts(done, "BlockchainEvent", t)]]
          /\ txRows' = [txRows EXCEPT ![a] = [t \in TxIds |->
                            @[t] + Inserts(done, "Transaction", t)]]
          /\ wa' = [wa EXCEPT ![a].lastCheckedBlock = Checkpoint(done, @)]
          /\ IF failsAt = 0 THEN Goes(sc, [sc EXCEPT !.pc = "emit"])
             ELSE AfterRow(sc, Len(sc.txs))   \* caught at the row
          /\ UNCHANGED <<subs, subEvents>>
    /\ UNCHANGED <<busVars, envVars, tip, stopped, warned, skipped>>

\* the cds.tx of processTransactionSubmission, one of its three branches
PersistSubmission(sc) ==
    LET row == Head(sc.rows)
        h   == row.key
    IN
    /\ sc.pc = "persist" /\ sc.path = "transaction"
    /\ \/ /\ ~inNetwork(sc.txInfo)        \* not in network: lastChecked, PENDING
          /\ subs' = [subs EXCEPT ![h].currentStatus = "PENDING"]
          /\ AfterRow(sc, 0)
          /\ UNCHANGED <<wa, events, txRows, subEvents>>
       \/ /\ inNetwork(sc.txInfo) /\ wasPending(row)
          /\ \E failsAt \in 0..Len(ConfirmTx(h)) :
                LET done == cdsTx(ConfirmTx(h), failsAt) IN
                /\ failsAt # 0 => "store" \in env
                /\ subEvents[h] + Inserts(done, "BlockchainEvent", h) <= MaxCount
                /\ subs' = [subs EXCEPT ![h].currentStatus =
                                IF Updates(done) = {} THEN @ ELSE "CONFIRMED"]
                /\ subEvents' = [subEvents EXCEPT ![h] =
                                    @ + Inserts(done, "BlockchainEvent", h)]
                /\ IF failsAt = 0 THEN Goes(sc, [sc EXCEPT !.pc = "emit"])
                   ELSE AfterRow(sc, 1)   \* eventsDetected = 1 is set before
          /\ UNCHANGED <<wa, events, txRows>>
       \/ /\ inNetwork(sc.txInfo) /\ ~wasPending(row)
          /\ AfterRow(sc, 0)              \* lastChecked and confirmations only
          /\ UNCHANGED storeVars
       \/ /\ "store" \in env          \* the single UPDATE of the other branches fails
          /\ ~(inNetwork(sc.txInfo) /\ wasPending(row))
          /\ AfterRow(sc, 0)
          /\ UNCHANGED storeVars
    /\ UNCHANGED <<busVars, envVars, tip, stopped, warned, skipped>>

\* an emit outside the try of its row: its failure ends the scan
ScanEmitUncaught(sc) ==
    LET k == Head(sc.rows).key IN
    /\ sc.pc = "emit"
    /\ \/ /\ sc.path = "address"
          /\ emitsNew[k] < MaxCount
          /\ emitsNew' = [emitsNew EXCEPT ![k] = @ + 1]
          /\ lastNew' = NewTransactions(k, sc.txs)
          /\ UNCHANGED emitsConfirmed
          /\ AfterRow(sc, Len(sc.txs))
       \/ /\ sc.path = "transaction"
          /\ emitsConfirmed[k] < MaxCount
          /\ emitsConfirmed' = [emitsConfirmed EXCEPT ![k] = @ + 1]
          /\ UNCHANGED <<emitsNew, lastNew>>
          /\ AfterRow(sc, 1)
       \/ /\ "bus" \in env
          /\ UNCHANGED busVars
          /\ Finish(sc, FALSE, 0)
    /\ UNCHANGED <<storeVars, envVars, tip, stopped, warned, skipped>>

\* cds.emit("cardano.newTransactions") / cds.emit("cardano.transactionConfirmed")
ScanEmit(sc) ==
    LET k == Head(sc.rows).key IN
    /\ sc.pc = "emit"
    /\ \/ /\ sc.path = "address"
          /\ emitsNew[k] < MaxCount
          /\ emitsNew' = [emitsNew EXCEPT ![k] = @ + 1]
          /\ lastNew' = NewTransactions(k, sc.txs)
          /\ UNCHANGED emitsConfirmed
       \/ /\ sc.path = "transaction"
          /\ emitsConfirmed[k] < MaxCount
          /\ emitsConfirmed' = [emitsConfirmed EXCEPT ![k] = @ + 1]
          /\ UNCHANGED <<emitsNew, lastNew>>
       \/ /\ "bus" \in env            \* emit throws: caught at the row
          /\ UNCHANGED busVars
    /\ AfterRow(sc, IF sc.path = "address" THEN Len(sc.txs) ELSE 1)
    /\ UNCHANGED <<storeVars, envVars, tip, stopped, warned, skipped>>

ScanStep(sc) ==
    \/ ScanSelect(sc)
    \/ FetchAddress(sc)
    \/ FetchSubmission(sc)
    \/ PersistAddress(sc)
    \/ PersistSubmission(sc)
    \/ ScanEmit(sc)

\* the caller of manualPoll takes what it returned or threw
ManualPollReturns(sc) ==
    /\ Ended(sc)
    /\ scans' = Removed(sc)
    /\ UNCHANGED <<supVars, storeVars, busVars, envVars, tip, stopped, warned, skipped>>

\* ------------------------------------------------------- the exported calls
Spawn(p, o) == scans' = Added(NewScan(p, o, 0))

\* a start() that starts the transaction path without waiting for
\* startAddressPolling() to return
StartCallTogether ==
    /\ stopped' = FALSE
    /\ UNCHANGED skipped
    /\ IF isRunning
       THEN /\ warned' = TRUE
            /\ UNCHANGED <<supVars, scans>>
       ELSE /\ UNCHANGED warned
            /\ LET st == [Sup EXCEPT !.isRunning = TRUE] IN
               IF cfg.addressPolling /\ ~addressPollingActive
                    /\ cfg.transactionPolling /\ ~transactionPollingActive
               THEN /\ BagCardinality(scans) + 2 <= MaxScans
                    /\ SetSup(ActivateTransaction(ActivateAddress(st)))
                    /\ scans' = scans (+) SetToBag({NewScan("address", "start", 0),
                                                   NewScan("transaction", "start", 0)})
               ELSE IF cfg.addressPolling /\ ~addressPollingActive
               THEN /\ Room
                    /\ SetSup(ActivateAddress(st))
                    /\ Spawn("address", "start")
               ELSE IF cfg.transactionPolling /\ ~transactionPollingActive
               THEN /\ Room
                    /\ SetSup(ActivateTransaction(st))
                    /\ Spawn("transaction", "start")
               ELSE /\ SetSup(st)
                    /\ UNCHANGED scans

\* start(): watcher.ts:51-73, up to its first await that yields
StartCall ==
    /\ stopped' = FALSE
    /\ UNCHANGED skipped
    /\ IF isRunning
       THEN /\ warned' = TRUE
            /\ UNCHANGED <<supVars, scans>>
       ELSE /\ UNCHANGED warned
            /\ LET st == [Sup EXCEPT !.isRunning = TRUE] IN
               IF cfg.addressPolling /\ ~addressPollingActive
               THEN /\ Room
                    /\ SetSup(ActivateAddress(st))
                    /\ Spawn("address", "start")
               ELSE IF cfg.transactionPolling /\ ~transactionPollingActive
               THEN /\ Room
                    /\ SetSup(ActivateTransaction(st))
                    /\ Spawn("transaction", "start")
               ELSE /\ SetSup(st)
                    /\ UNCHANGED scans

\* start() without its isRunning check
StartUnguarded ==
    /\ stopped' = FALSE
    /\ UNCHANGED <<warned, skipped>>
    /\ LET st == [Sup EXCEPT !.isRunning = TRUE] IN
       IF cfg.addressPolling /\ ~addressPollingActive
       THEN /\ Room
            /\ SetSup(ActivateAddress(st))
            /\ Spawn("address", "start")
       ELSE IF cfg.transactionPolling /\ ~transactionPollingActive
       THEN /\ Room
            /\ SetSup(ActivateTransaction(st))
            /\ Spawn("transaction", "start")
       ELSE /\ SetSup(st)
            /\ UNCHANGED scans
    /\ UNCHANGED <<storeVars, busVars, envVars, tip>>

\* start() called from outside
Start ==
    /\ StartCall
    /\ UNCHANGED <<storeVars, busVars, envVars, tip>>

\* stop(): watcher.ts:78-91
Stop ==
    /\ stopped' = TRUE
    /\ IF ~isRunning
       THEN UNCHANGED supVars
       ELSE SetSup([stopTransactionPolling(stopAddressPolling(Sup))
                       EXCEPT !.isRunning = FALSE])
    /\ UNCHANGED <<storeVars, busVars, envVars, tip, scans, warned, skipped>>

\* startAddressPolling() without its addressPollingActive check
StartAddressPollingUnguarded ==
    /\ stopped' = FALSE
    /\ Room
    /\ SetSup(ActivateAddress(Sup))
    /\ Spawn("address", "startPolling")
    /\ UNCHANGED <<storeVars, busVars, envVars, tip, warned>>

\* startAddressPolling() called from outside: watcher.ts:100-127
\* (skipped is set by the specification)
StartAddressPolling ==
    /\ stopped' = FALSE
    /\ IF addressPollingActive
       THEN UNCHANGED <<supVars, scans>>
       ELSE /\ Room
            /\ SetSup(ActivateAddress(Sup))
            /\ Spawn("address", "startPolling")
    /\ UNCHANGED <<storeVars, busVars, envVars, tip, warned>>

\* startTransactionPolling() called from outside: watcher.ts:155-182
StartTransactionPolling ==
    /\ stopped' = FALSE
    /\ IF transactionPollingActive
       THEN UNCHANGED <<supVars, scans>>
       ELSE /\ Room
            /\ SetSup(ActivateTransaction(Sup))
            /\ Spawn("transaction", "startPolling")
    /\ UNCHANGED <<storeVars, busVars, envVars, tip, warned>>

StopAddressPolling ==
    /\ SetSup(stopAddressPolling(Sup))
    /\ UNCHANGED <<storeVars, busVars, envVars, tip, scans, stopped, warned, skipped>>

StopTransactionPolling ==
    /\ SetSup(stopTransactionPolling(Sup))
    /\ UNCHANGED <<storeVars, busVars, envVars, tip, scans, stopped, warned, skipped>>

\* manualPoll(): watcher.ts:510-532, up to the address scan's first await
ManualPoll ==
    /\ Room
    /\ Spawn("address", "manualPoll")
    /\ UNCHANGED <<supVars, storeVars, busVars, envVars, tip, stopped, warned, skipped>>

\* a live interval timer of path p fires: the setInterval callback
Tick(p) ==
    /\ timers[p] > 0
    /\ Room
    /\ Spawn(p, "tick")
    /\ UNCHANGED <<supVars, storeVars, busVars, envVars, tip, stopped, warned, skipped>>

\* updateTransactionStatus of the admin service
UpdateTransactionStatus(h, status) ==
    /\ subs' = [subs EXCEPT ![h].currentStatus = status]
    /\ UNCHANGED <<supVars, wa, events, txRows, subEvents, busVars, envVars, tip,
                   scans, stopped, warned, skipped>>

\* the chain grows by one block
NewBlock ==
    /\ tip < MaxTx
    /\ tip' = tip + 1
    /\ UNCHANGED <<supVars, storeVars, busVars, envVars, scans, stopped, warned, skipped>>

\* ----------------------------------------- the plugin around the watcher
\* config.blockfrostProjectId || config.blockfrostApiKey
ProjectId(config) ==
    IF config.blockfrostProjectId # Null THEN config.blockfrostProjectId
    ELSE config.blockfrostApiKey

\* config.network === "mainnet" ? "mainnet" : config.network
Network(config) ==
    IF config.network = "mainnet" THEN "mainnet" ELSE config.network

\* new BlockFrostAPI({ projectId, network })
NewClient(config) ==
    [id |-> constructed + 1, projectId |-> ProjectId(config),
     network |-> Network(config)]

\* an initializeClient that constructs a client at every call
initializeClientAnew(config) ==
    \/ /\ constructed <= MaxCalls
       /\ blockfrostClient' = NewClient(config)
       /\ constructed' = constructed + 1
       /\ handle' = NewClient(config)
    \/ /\ handle' = NoClient
       /\ UNCHANGED <<blockfrostClient, constructed>>

\* initializeClient(config): blockfrost.ts:38-60.  The constructor of the
\* library returns a client or throws; the throw is caught and null returned.
initializeClient(config) ==
    IF blockfrostClient # NoClient
    THEN /\ handle' = blockfrostClient
         /\ UNCHANGED <<blockfrostClient, constructed>>
    ELSE \/ /\ constructed <= MaxCalls
            /\ blockfrostClient' = NewClient(config)
            /\ constructed' = constructed + 1
            /\ handle' = NewClient(config)
         \/ /\ handle' = NoClient
            /\ UNCHANGED <<blockfrostClient, constructed>>

\* initializeClient called with any configuration
InitializeClient(config) ==
    /\ initializeClient(config)
    /\ UNCHANGED <<supVars, storeVars, busVars, cfg, env, tip, scans, stopped,
                   warned, skipped>>
    /\ UNCHANGED <<configuration, handlers, initialized, pluginInitialized,
                   calls, setupRuns, pluginRuns, errVars>>

\* setup(): watcher.ts:29-46, up to the await of start()
Setup ==
    /\ IF configuration.blockfrostApiKey # Null
            \/ configuration.blockfrostProjectId # Null
       THEN initializeClient(configuration)
       ELSE UNCHANGED <<blockfrostClient, constructed, handle>>
    /\ handlers' = [s \in Signals |-> handlers[s] + 1]
    /\ IF configuration.autoStart
       THEN StartCall
       ELSE UNCHANGED <<supVars, scans, stopped, warned, skipped>>
    /\ UNCHANGED <<storeVars, busVars, cfg, env, tip, configuration>>

\* initialize() of index.ts:121-148 up to its await of watcher.setup(), for
\* call c, made by the application or by the 'served' handler.  An
\* initialize() that returns at once to the handler lets the handler finish.
initialize(c, served) ==
    IF initialized
    THEN /\ calls' = [calls EXCEPT ![c] = [pc |-> "done", served |-> served]]
         /\ pluginInitialized' = (pluginInitialized \/ served)
         /\ UNCHANGED <<supVars, storeVars, busVars, cfg, env, tip, scans,
                        stopped, warned, skipped>>
         /\ UNCHANGED <<configuration, blockfrostClient, constructed, handle,
                        handlers, initialized, setupRuns>>
    ELSE /\ setupRuns' = setupRuns + 1
         /\ Setup
         /\ calls' = [calls EXCEPT ![c] =
                          [pc |-> IF scans' # scans THEN "start" ELSE "setup",
                           served |-> served]]
         /\ UNCHANGED <<initialized, pluginInitialized>>

\* the application calls initialize()
Initialize(c) ==
    /\ calls[c].pc = "idle"
    /\ initialize(c, FALSE)
    /\ UNCHANGED <<pluginRuns, errVars>>

\* cds emits 'served': plugin.ts:41-59 up to its await of import('./index')
Served(c) ==
    /\ calls[c].pc = "idle"
    /\ calls' = [calls EXCEPT ![c] =
                    [pc |-> IF pluginInitialized THEN "done" ELSE "import",
                     served |-> TRUE]]
    /\ UNCHANGED <<supVars, storeVars, busVars, cfg, env, tip, scans, stopped,
                   warned, skipped>>
    /\ UNCHANGED <<configuration, blockfrostClient, constructed, handle,
                   handlers, initialized, pluginInitialized, setupRuns,
                   pluginRuns, errVars>>

\* the 'served' handler has its module and calls watcher.initialize()
ServedImported(c) ==
    /\ calls[c].pc = "import"
    /\ pluginRuns' = pluginRuns + 1
    /\ initialize(c, TRUE)
    /\ UNCHANGED errVars

\* watcher.setup() has returned to the initialize() of call c: start() has
\* returned (its initial scans are over), or was not called
SetupReturns(c) ==
    /\ calls[c].pc \in {"setup", "start"}
    /\ calls[c].pc = "start" => \A sc \in Running : sc.origin # "start"
    /\ initialized' = TRUE
    /\ pluginInitialized' = (pluginInitialized \/ calls[c].served)
    /\ calls' = [calls EXCEPT ![c].pc = "done"]
    /\ UNCHANGED <<supVars, storeVars, busVars, cfg, env, tip, scans, stopped,
                   warned, skipped>>
    /\ UNCHANGED <<configuration, blockfrostClient, constructed, handle,
                   handlers, setupRuns, pluginRuns, errVars>>

\* the process receives a signal that has a listener: every listener is
\* stop(), and stop() after stop() changes nothing
Signal(sig) ==
    /\ handlers[sig] > 0
    /\ Stop

\* an await on a settled promise is resumed before any timer, I/O or signal
\* callback runs
NoMicrotask == \A c \in Callers : calls[c].pc # "setup"

\* the plugin is loaded into an application: the application and cds
\* initialize it, with one watched address and a chain at block 1
InitPlugin ==
    /\ InitModule
    /\ Loaded
    /\ NothingThrown
    /\ InitRows({"a1"})
    /\ configuration \in {config \in Configs : /\ config.blockfrostApiKey = Null
                                                /\ config.network = "mainnet"}
    /\ cfg = [addressPolling |-> TRUE, transactionPolling |-> TRUE]
    /\ env = {}
    /\ tip = 1

NextPlugin ==
    \/ \E c \in Callers : Initialize(c)
    \/ \E c \in Callers : Served(c)
    \/ \E c \in Callers : ServedImported(c)
    \/ \E c \in Callers : SetupReturns(c)
    \/ \E config \in Configs : InitializeClient(config)
    \/ \E sig \in Signals : NoMicrotask /\ Signal(sig)
    \/ \E sc \in Running : NoMicrotask /\ ScanStep(sc)

SpecPlugin == InitPlugin /\ [][NextPlugin]_vars

\* handleBackendRequest: a provider call throws err and the catch normalizes it
Normalize ==
    /\ normalized = NoError
    /\ normalized' = normalizeBackendError(err)
    /\ UNCHANGED <<supVars, storeVars, busVars, cfg, env, procVars, err, tip,
                   scans, stopped, warned, skipped>>

\* every error a provider call can throw, normalized
InitNormalize ==
    /\ InitModule
    /\ SetUp
    /\ InitRows({"a1"})
    /\ cfg = [addressPolling |-> TRUE, transactionPolling |-> TRUE]
    /\ env = {}
    /\ tip = 0
    /\ err \in RawErrors \cup BackendErrors
    /\ normalized = NoError

NextNormalize == Normalize

SpecNormalize == InitNormalize /\ [][NextNormalize]_vars

\* the calls of the control actions of the admin service
Control ==
    \/ Start
    \/ Stop
    \/ StartAddressPolling /\ UNCHANGED skipped
    \/ StartTransactionPolling /\ UNCHANGED skipped
    \/ StopAddressPolling
    \/ StopTransactionPolling

Scanning ==
    \/ ManualPoll
    \/ \E p \in Paths : Tick(p)
    \/ \E sc \in Running : ScanStep(sc)
    \/ \E sc \in Running : ManualPollReturns(sc)

Next ==
    \/ Control
    \/ Scanning

Spec == Init /\ [][Next]_vars

\* updateTransactionStatus is called only in the runs that have an operator
OperatorSetsStatus ==
    \E h \in Hashes, status \in Statuses :
        "admin" \in env /\ UpdateTransactionStatus(h, status)

\* no scan of a path is in flight together with another scan of that path
NoOverlap == \A p \in Paths : InFlight(p) <= 1

\* the timer and start scans of a path never overlap one another (a manualPoll
\* scan may overlap them)
ScheduledAlone == \A p \in Paths : Scheduled(p) <= 1

\* the pollers at work, every scan cycle of a path run after the previous one
NextSequential ==
    \/ Start /\ NoOverlap'
    \/ ManualPoll /\ NoOverlap'
    \/ \E p \in Paths : Tick(p) /\ NoOverlap'
    \/ \E sc \in Running : ScanStep(sc) /\ NoOverlap'
    \/ \E sc \in Running : ManualPollReturns(sc)
    \/ NewBlock
    \/ OperatorSetsStatus

SpecSequential == InitPolling /\ [][NextSequential]_vars

\* the pollers at work, manualPoll running while scheduled scans are in flight
NextManual ==
    \/ Start /\ ScheduledAlone'
    \/ ManualPoll
    \/ \E p \in Paths : Tick(p) /\ ScheduledAlone'
    \/ \E sc \in Running : ScanStep(sc) /\ ScheduledAlone'
    \/ \E sc \in Running : ManualPollReturns(sc)
    \/ NewBlock
    \/ OperatorSetsStatus

SpecManual == InitPolling /\ [][NextManual]_vars

\* the supervisor under every sequence of start, stop and per-path calls,
\* with the record of the path starts that returned at once
InitControl ==
    /\ InitWatcher
    /\ \E rows \in OneRow : InitRows(rows)
    /\ cfg \in [addressPolling : BOOLEAN, transactionPolling : BOOLEAN]
    /\ env = {}
    /\ tip = 1

NextControl ==
    \/ Start
    \/ Stop
    \/ StartAddressPolling /\ skipped' = (skipped \/ addressPollingActive)
    \/ StartTransactionPolling /\ skipped' = (skipped \/ transactionPollingActive)
    \/ StopAddressPolling
    \/ StopTransactionPolling
    \/ \E sc \in Running : ScanStep(sc)

SpecControl == InitControl /\ [][NextControl]_vars

\* a provider call that never returns: the scan stays at its await
Hung(sc) ==
    /\ sc.pc = "fetch"
    /\ \/ sc.path = "address" /\ "stuckAddress" \in env
       \/ sc.path = "transaction" /\ "stuckTransaction" \in env

\* start() with both paths enabled and a row to scan on each, the provider
\* never answering on one of the paths
InitStuck ==
    /\ InitWatcher
    /\ InitRows({"a1", "h1"})
    /\ cfg = [addressPolling |-> TRUE, transactionPolling |-> TRUE]
    /\ env \in {{"stuckAddress"}, {"stuckTransaction"}}
    /\ tip = 0

NextStuck ==
    \/ Start
    \/ \E p \in Paths : Tick(p)
    \/ \E sc \in Running : ~Hung(sc) /\ ScanStep(sc)
    \/ NewBlock

\* start() is called, every call that is answered goes on, and a live timer
\* fires again and again (when a scan can be taken on)
SpecStuck ==
    /\ InitStuck
    /\ [][NextStuck]_vars
    /\ WF_vars(Start)
    /\ WF_vars(\E sc \in Running : ~Hung(sc) /\ ScanStep(sc))
    /\ \A p \in Paths : WF_vars(Tick(p))

\* the first page of the history of address a1 (the earlier transactions and
\* transaction 1, in the blocks up to block 1) has been recorded and notified
\* by a cycle that has ended
FirstPageRecorded ==
    /\ tip = 1
    /\ wa = [a \in Addrs |-> [active |-> a = "a1",
                               lastCheckedBlock |-> IF a = "a1" THEN 1 ELSE NoBlock]]
    /\ events = [a \in Addrs |-> [t \in TxIds |->
                                     IF a = "a1" /\ t = 1 THEN 1 ELSE 0]]
    /\ txRows = events
    /\ emitsNew = [a \in Addrs |-> IF a = "a1" THEN 1 ELSE 0]
    /\ lastNew = NewTransactions("a1", <<1>>)

\* a watcher that is started and never stopped, with an active address and an
\* active submission: on a new address, on an address whose history fills the
\* first page of the listing, or with a provider that fails until it recovers
InitLive ==
    /\ InitIdle
    /\ SetUp
    /\ NothingThrown
    /\ cfg = [addressPolling |-> TRUE, transactionPolling |-> TRUE]
    /\ subs = [h \in Hashes |-> [active |-> h = "h1", currentStatus |-> "PENDING"]]
    /\ subEvents = [h \in Hashes |-> 0]
    /\ emitsConfirmed = [h \in Hashes |-> 0]
    /\ env \in {{}, {"provider"}, {"history"}}
    /\ IF "history" \in env THEN FirstPageRecorded
       ELSE /\ tip = 0
            /\ wa = [a \in Addrs |-> [active |-> a = "a1",
                                       lastCheckedBlock |-> NoBlock]]
            /\ events = [a \in Addrs |-> [t \in TxIds |-> 0]]
            /\ txRows = events
            /\ emitsNew = [a \in Addrs |-> 0]
            /\ lastNew = [address |-> Null, count |-> 0, transactions |-> <<>>]

\* from here on every provider call succeeds
ProviderRecovers ==
    /\ "provider" \in env
    /\ env' = env \ {"provider"}
    /\ UNCHANGED <<supVars, storeVars, busVars, cfg, procVars, errVars, tip,
                   scans, stopped, warned, skipped>>

NextLive ==
    \/ Start /\ NoOverlap'
    \/ \E p \in Paths : Tick(p) /\ NoOverlap'
    \/ \E sc \in Running : ScanStep(sc) /\ NoOverlap'
    \/ NewBlock
    \/ ProviderRecovers

\* start() is called, every await of the scan of a path is answered, and a
\* live timer calls its scan again and again
SpecLive ==
    /\ InitLive
    /\ [][NextLive]_vars
    /\ WF_vars(Start /\ NoOverlap')
    /\ \A p \in Paths :
          /\ WF_vars(\E sc \in Running : sc.path = p /\ ScanStep(sc) /\ NoOverlap')
          /\ WF_vars(Tick(p) /\ NoOverlap')

\* ------------------------------------------------------------- config.ts
\* const validNetworks
validNetworks == {"mainnet", "testnet", "preview", "preprod"}

\* the fields of the configuration that the calls of this model write
Fields == {"network", "pollingInterval", "blockfrostApiKey", "autoStart"}

\* An options object: the fields it has (given) and their values.  A field
\* it does not have is written with the value of the defaults.
Defaults ==
    [network |-> "mainnet", pollingInterval |-> 30, blockfrostApiKey |-> Null,
     blockfrostProjectId |-> Null, autoStart |-> TRUE]

Options ==
    {o \in [given : SUBSET Fields,
            network : validNetworks \cup {"invalid-network"},
            pollingInterval : {4, 5, 30, 60},
            blockfrostApiKey : {Null, "k1"},
            autoStart : BOOLEAN] :
        \A f \in Fields \ o.given : o[f] = Defaults[f]}

\* { ...base, ...o }
Merge(base, o) ==
    [f \in DOMAIN base |-> IF f \in o.given THEN o[f] ELSE base[f]]

\* cds.env.cardanoWatcher is not set: (undefined) || {}
envConfig ==
    [given |-> {}, network |-> Defaults.network,
     pollingInterval |-> Defaults.pollingInterval,
     blockfrostApiKey |-> Defaults.blockfrostApiKey,
     autoStart |-> Defaults.autoStart]

InvalidNetwork == ErrorRecord("Error", 0, 0, 0, <<"Invalid network">>, "-", FALSE)
IntervalTooShort ==
    ErrorRecord("Error", 0, 0, 0, <<"Polling interval must be at least 5 seconds">>,
                "-", FALSE)

\* validateConfiguration(): what it throws for the stored configuration c
validateConfiguration(c) ==
    IF c.network \notin validNetworks THEN InvalidNetwork
    ELSE IF c.pollingInterval < 5 THEN IntervalTooShort
    ELSE NoError

\* validateConfiguration() has come to its warning of a missing key
WarnsNoKey(c) ==
    /\ validateConfiguration(c) = NoError
    /\ c.blockfrostApiKey = Null /\ c.blockfrostProjectId = Null

\* validateConfiguration() called on the configuration c that has been stored
Validated(c) ==
    /\ err' = validateConfiguration(c)
    /\ warned' = (warned \/ WarnsNoKey(c))
    /\ UNCHANGED <<supVars, storeVars, busVars, cfg, env, blockfrostClient,
                   constructed, handle, handlers, initialized, pluginInitialized,
                   calls, setupRuns, pluginRuns, normalized, tip, scans, stopped,
                   skipped>>

\* config.initialize(options): the assignment, then the validation
ConfigInitialize(options) ==
    /\ configuration' = Merge(Merge(configuration, envConfig), options)
    /\ Validated(configuration')

\* config.update(updates): the assignment, then the validation
ConfigUpdate(updates) ==
    /\ configuration' = Merge(configuration, updates)
    /\ Validated(configuration')

\* the module config.ts as it is loaded
InitConfig ==
    /\ InitModule
    /\ Loaded
    /\ NothingThrown
    /\ InitRows({"a1"})
    /\ cfg = [addressPolling |-> TRUE, transactionPolling |-> TRUE]
    /\ env = {}
    /\ tip = 0
    /\ configuration = Defaults

NextConfig ==
    \/ \E options \in Options : ConfigInitialize(options)
    \/ \E updates \in Options : ConfigUpdate(updates)

SpecConfig == InitConfig /\ [][NextConfig]_vars

\* manualPoll on a watch list of two active addresses or two active
\* submissions, one call after the other, with one kind of failing
\* collaborator per run
TwoRows == {{"a1", "a2"}, {"h1", "h2"}}

InitTwoRows ==
    /\ InitWatcher
    /\ \E rows \in TwoRows : InitRows(rows)
    /\ cfg = [addressPolling |-> TRUE, transactionPolling |-> TRUE]
    /\ env \in {{}, {"provider"}, {"store"}, {"bus"}}
    /\ tip = 0

NextTwoRows ==
    \/ ManualPoll /\ NoOverlap'
    \/ \E sc \in Running : ScanStep(sc) /\ NoOverlap'
    \/ \E sc \in Running : ManualPollReturns(sc)
    \/ NewBlock

SpecTwoRows == InitTwoRows /\ [][NextTwoRows]_vars

\* manualPoll on a watcher that is started and stopped, with an active address
\* and an active submission, and collaborators that do not fail
InitBothPaths ==
    /\ InitWatcher
    /\ InitRows({"a1", "h1"})
    /\ cfg = [addressPolling |-> TRUE, transactionPolling |-> TRUE]
    /\ env = {}
    /\ tip = 0

NextBothPaths ==
    \/ Start /\ NoOverlap'
    \/ Stop
    \/ ManualPoll /\ NoOverlap'
    \/ \E sc \in Running : ScanStep(sc) /\ NoOverlap'
    \/ \E sc \in Running : ManualPollReturns(sc)
    \/ NewBlock

SpecBothPaths == InitBothPaths /\ [][NextBothPaths]_vars

\* ------------------------------------------------------------------ claims

\* C1: a timer tick of a path never begins a scan while an earlier scan of the
\* same path (the initial scan of the path's start, or an earlier tick) is
\* still in flight.
C1_OneScanPerPath ==
    [][\A p \in Paths : Tick(p) => Scheduled(p) = 0]_vars

\* C2: lastCheckedBlock of a watched address never decreases, also when a
\* manualPoll scan overlaps a scheduled scan of the address.
C2_CheckpointNeverDecreases ==
    [][\A a \in Addrs : wa'[a].lastCheckedBlock >= wa[a].lastCheckedBlock]_vars

\* C3: over scan cycles that do not overlap and whatever the provider answers,
\* at most one confirmation event is inserted and at most one
\* transactionConfirmed notification is emitted for a submission.
C3_AtMostOneConfirmation ==
    "admin" \notin env =>
        \A h \in Hashes : subEvents[h] <= 1 /\ emitsConfirmed[h] <= 1

\* a scan that has read the row of h about to emit its notification
Emitting(h) ==
    \E sc \in Running : /\ sc.pc = "emit" /\ sc.path = "transaction"
                        /\ Head(sc.rows).key = h

\* C4: when transaction scans run one after the other and the provider reports
\* the submission found in each, exactly one event is inserted and exactly one
\* notification is emitted: the first scan confirms the submission, and a scan
\* that reads it as CONFIRMED does neither.
C4_ConfirmedExactlyOnce ==
    env = {} =>
        \A h \in Hashes :
            /\ subs[h].currentStatus = "PENDING" =>
                   subEvents[h] = 0 /\ emitsConfirmed[h] = 0
            /\ subs[h].currentStatus = "CONFIRMED" =>
                   /\ subEvents[h] = 1
                   /\ emitsConfirmed[h] = IF Emitting(h) THEN 0 ELSE 1
            /\ subs[h].currentStatus \in {"PENDING", "CONFIRMED"}

\* a second scan has been told "found" for a submission it read as CONFIRMED
C4_Witness ==
    /\ env = {}
    /\ \E sc \in Running : /\ sc.path = "transaction"
                           /\ sc.pc = "persist"
                           /\ sc.txInfo = "found"
                           /\ Head(sc.rows).currentStatus = "CONFIRMED"

\* C5: the transition of a submission to CONFIRMED (the step that inserts its
\* confirmation event) also sets active to false.
C5_ConfirmedIsDeactivated ==
    [][\A h \in Hashes :
          subEvents'[h] > subEvents[h] =>
              subs'[h].currentStatus = "CONFIRMED" /\ ~subs'[h].active]_vars

\* C6: the only status change a scan performs is PENDING -> CONFIRMED; a
\* CONFIRMED or FAILED submission keeps its status across every scan.
C6_OnlyPendingToConfirmed ==
    [][(\E sc \in Running : ScanStep(sc)) =>
          \A h \in Hashes :
              subs'[h].currentStatus # subs[h].currentStatus =>
                  /\ subs[h].currentStatus = "PENDING"
                  /\ subs'[h].currentStatus = "CONFIRMED"]_vars

\* C7: when manualPoll overlaps a scheduled scan (and nothing fails), no event
\* is inserted twice and no submission is confirmed or notified twice.
C7_NoDuplicateMutation ==
    env = {} =>
        /\ \A a \in Addrs, t \in TxIds : events[a][t] <= 1
        /\ \A h \in Hashes : subEvents[h] <= 1 /\ emitsConfirmed[h] <= 1

\* C8: when stop() returns both timers are cancelled, both path flags are
\* false and isRunning is false, however the paths were started.
C8_StopStopsEverything ==
    [][Stop => /\ ~isRunning'
               /\ ~addressPollingActive' /\ ~transactionPollingActive'
               /\ addressInterval' = Null /\ transactionInterval' = Null
               /\ \A p \in Paths : timers'[p] = 0]_vars

\* C9: between the return of stop() and the next start call, no new timer
\* comes into existence.
C9_NoNewTimerAfterStop ==
    [][stopped /\ stopped' => \A p \in Paths : timers'[p] <= timers[p]]_vars

\* C9: between the return of stop() and the next start call, no timer tick
\* begins a scan.
C9_NoTickAfterStop ==
    [][stopped /\ stopped' => ~(\E p \in Paths : Tick(p))]_vars

\* C10: start() on a running watcher changes nothing: no timer, no scan, no
\* flag; it only logs the warning.
C10_StartWhileRunningIsNoOp ==
    [][Start /\ isRunning =>
          UNCHANGED <<supVars, storeVars, busVars, scans>>]_vars

\* start() has been called on a running watcher
C10_Witness == warned /\ isRunning

\* C11: startAddressPolling() or startTransactionPolling() on a path that is
\* active changes nothing, and after every sequence of start, stop and
\* per-path start and stop calls each path has at most one live timer.
C11_OneTimerPerPath ==
    /\ [](\A p \in Paths : timers[p] <= 1)
    /\ [][/\ StartAddressPolling /\ addressPollingActive =>
                UNCHANGED <<supVars, scans, storeVars, busVars>>
          /\ StartTransactionPolling /\ transactionPollingActive =>
                UNCHANGED <<supVars, scans, storeVars, busVars>>]_vars

\* a path start has been called on an active path, which has its one timer
C11_Witness ==
    /\ skipped
    /\ \E p \in Paths : timers[p] = 1

\* C12: stopTransactionPolling() leaves the timer, the handle and the flag of
\* the address path as they are, and stopAddressPolling() those of the
\* transaction path; neither ends a scan in flight.
C12_StopLeavesOtherPath ==
    [][/\ StopTransactionPolling =>
             /\ UNCHANGED <<addressPollingActive, addressInterval, scans>>
             /\ timers'["address"] = timers["address"]
       /\ StopAddressPolling =>
             /\ UNCHANGED <<transactionPollingActive, transactionInterval, scans>>
             /\ timers'["transaction"] = timers["transaction"]]_vars

\* start() has finished with both paths enabled and the transaction path has
\* been stopped since; the address path is active and its timer is live
C12_Witness ==
    /\ cfg.addressPolling /\ cfg.transactionPolling
    /\ isRunning
    /\ ~transactionPollingActive /\ transactionInterval = Null
    /\ timers["transaction"] = 0
    /\ addressPollingActive /\ addressInterval # Null /\ timers["address"] = 1
    /\ \A sc \in Running : sc.origin # "start"

\* C13: a provider call that never returns on one path does not block the
\* other: once start() has been called with both paths enabled the
\* transaction path becomes active and scans, also when the initial address
\* scan never completes, and the address timer stays live while a transaction
\* scan is stuck.
C13_StuckPathDoesNotBlock ==
    /\ <>(/\ transactionPollingActive
          /\ \E sc \in Running : sc.path = "transaction")
    /\ []((\E sc \in Running : sc.path = "transaction" /\ Hung(sc)) =>
             timers["address"] > 0)

\* the row at work of scan sc (a scan of manualPoll) is done with n events:
\* the scan goes to its next row, or returns (it does not throw) and manualPoll
\* carries the scan's count
RowDone(sc, n) ==
    \E new \in BagToSet(scans') :
        /\ scans' = Moved(sc, new)
        /\ IF Len(sc.rows) > 1
           THEN /\ new.pc = "fetch" /\ new.rows = Tail(sc.rows)
                /\ new.count = sc.count + n
           ELSE IF sc.path = "address"
           THEN /\ new.pc = "select" /\ new.path = "transaction"
                /\ new.addressEvents = sc.count + n
           ELSE /\ new.pc = "return"
                /\ new.count = sc.addressEvents + sc.count + n

\* C14: a provider or persistence error at one row is caught at that row: the
\* scan goes on with the rows that remain, returns normally, and the row that
\* failed adds nothing to the count the scan returns.
C14_RowFailureIsIsolated ==
    [][\A sc \in Running :
          \/ FetchAddress(sc) /\ \A new \in BagToSet(scans') : new.pc # "persist"
          \/ PersistAddress(sc) /\ UNCHANGED storeVars
          \/ PersistSubmission(sc) /\ UNCHANGED storeVars
          => RowDone(sc, 0)]_vars

\* C15: an address for which the provider returns no new transaction gets
\* no BlockchainEvent and no Transaction row, no notification, the same
\* lastCheckedBlock as before, and adds 0 to the count of the scan.
C15_NoActivityIsNoOp ==
    [][\A sc \in Running :
          FetchAddress(sc) /\ FetchAddressAnswer(sc, <<>>) =>
              /\ UNCHANGED <<storeVars, busVars>>
              /\ RowDone(sc, 0)]_vars

\* a scan has gone past address a1, whose checkpoint stands at the tip of the
\* chain, with nothing detected, and is at a2
C15_Witness ==
    /\ env = {}
    /\ tip >= 1
    /\ wa["a1"].lastCheckedBlock = tip
    /\ \E sc \in Running : /\ sc.path = "address" /\ sc.pc = "fetch"
                           /\ Len(sc.rows) = 1 /\ Head(sc.rows).key = "a2"
                           /\ sc.count = 0

\* C16: the cds.tx of an address for which the provider returned a list that
\* is not empty leaves lastCheckedBlock at the greatest block height of the
\* list, and it contains one update of the checkpoint, not one per
\* transaction.
C16_CheckpointIsMaxOfList ==
    [][\A sc \in Running :
          PersistAddress(sc) /\ events' # events =>
              LET a      == Head(sc.rows).key
                  blocks == {TransactionData(sc.txs[i]).blockNumber :
                                i \in DOMAIN sc.txs}
              IN  /\ wa'[a].lastCheckedBlock \in blocks
                  /\ \A b \in blocks : b <= wa'[a].lastCheckedBlock
                  /\ Cardinality(Updates(AddressTx(sc.txs))) = 1]_vars

\* the cds.tx of a list of two transactions has committed: the checkpoint is
\* the height of the later one
C16_Witness ==
    \E sc \in Running :
        /\ sc.path = "address" /\ sc.pc = "emit"
        /\ Len(sc.txs) = 2
        /\ wa[Head(sc.rows).key].lastCheckedBlock =
               TransactionData(sc.txs[2]).blockNumber
        /\ TransactionData(sc.txs[1]).blockNumber
               < TransactionData(sc.txs[2]).blockNumber

C18_NullCheckpointIsSkipped ==
    \A sc \in Running :
        sc.path = "address" /\ sc.pc \in {"persist", "emit"} =>
            Head(sc.rows).lastCheckedBlock # NoBlock

\* C18, as the code has it: an active watched address whose lastCheckedBlock
\* is null is scanned without a lower bound: when nothing fails the provider's
\* answer is every transaction listed for the address, and it is processed as
\* new activity.
C18_NullCheckpointScansAll ==
    [][\A sc \in Running :
          /\ FetchAddress(sc)
          /\ Head(sc.rows).lastCheckedBlock = NoBlock
          /\ env = {}
          => FetchAddressAnswer(sc, Asc(1..tip))]_vars

\* the events of an address read with a null checkpoint have been inserted and
\* its checkpoint set
C18_Witness ==
    /\ env = {}
    /\ \E sc \in Running :
          /\ sc.path = "address" /\ sc.pc = "emit"
          /\ Head(sc.rows).lastCheckedBlock = NoBlock
          /\ events[Head(sc.rows).key][1] = 1
          /\ wa[Head(sc.rows).key].lastCheckedBlock >= 1

\* C19: when the provider returns none for a submission that is PENDING, the
\* scan leaves it PENDING, inserts no BlockchainEvent, emits no notification
\* and adds 0 to its count.
C19_NotFoundKeepsPending ==
    [][\A sc \in Running :
          LET h == Head(sc.rows).key IN
          /\ PersistSubmission(sc)
          /\ sc.txInfo = "null"
          /\ subs[h].currentStatus = "PENDING"
          => /\ subs'[h].currentStatus = "PENDING"
             /\ UNCHANGED <<subEvents, events, txRows, busVars>>
             /\ RowDone(sc, 0)]_vars

\* a scan has gone past submission h1, which is not on chain, and is at h2;
\* h1 is PENDING and has no event and no notification
C19_Witness ==
    /\ env = {}
    /\ tip < InclusionBlock("h1")
    /\ subs["h1"].currentStatus = "PENDING"
    /\ subEvents["h1"] = 0 /\ emitsConfirmed["h1"] = 0
    /\ \E sc \in Running : /\ sc.path = "transaction" /\ sc.pc = "fetch"
                           /\ Len(sc.rows) = 1 /\ Head(sc.rows).key = "h2"
                           /\ sc.count = 0

\* the row at work of scan sc has been persisted: the events of its list and
\* its checkpoint, or its confirmation event and its status
Persisted(sc) ==
    LET k == Head(sc.rows).key IN
    IF sc.path = "address"
    THEN /\ \A i \in DOMAIN sc.txs :
               /\ events[k][TransactionData(sc.txs[i]).txHash] >= 1
               /\ txRows[k][TransactionData(sc.txs[i]).txHash] >= 1
         /\ wa[k].lastCheckedBlock = MaxBlock(sc.txs)
    ELSE /\ subEvents[k] >= 1
         /\ subs[k].currentStatus = "CONFIRMED"

\* C20: a notification is emitted for a row only when the row's events and
\* its checkpoint or status have been persisted; when the cds.tx of a row
\* fails, the row is over without an emit.
C20_EmitAfterPersistence ==
    /\ [](\A sc \in Running : sc.pc = "emit" => Persisted(sc))
    /\ [][/\ busVars' # busVars =>
                \E sc \in Running : ScanEmit(sc) /\ Persisted(sc)
          /\ \A sc \in Running :
                \/ PersistAddress(sc) /\ UNCHANGED storeVars
                \/ /\ PersistSubmission(sc) /\ UNCHANGED storeVars
                   /\ sc.txInfo = "found" /\ wasPending(Head(sc.rows))
                => /\ UNCHANGED busVars
                   /\ \E n \in 0..MaxTx : RowDone(sc, n)]_vars

\* the cds.tx of address a1 has failed in a scan that is now at a2: a1 has no
\* event and no notification
C20_Witness ==
    /\ env = {"store"}
    /\ \A t \in TxIds : events["a1"][t] = 0
    /\ emitsNew["a1"] = 0
    /\ \E sc \in Running : /\ sc.path = "address" /\ sc.pc = "fetch"
                           /\ Len(sc.rows) = 1 /\ Head(sc.rows).key = "a2"
                           /\ sc.count > 0

\* C21: when the emit of a row fails, the events and the checkpoint or status
\* persisted for the row stay as they are, nothing is emitted again for the
\* row, and the failure stays in the row: the scan goes to its next row, or
\* returns normally with the row's events in its count.
C21_EmitFailureIsSwallowed ==
    [][\A sc \in Running :
          ScanEmit(sc) /\ UNCHANGED busVars =>
              /\ Persisted(sc)
              /\ UNCHANGED storeVars
              /\ RowDone(sc, IF sc.path = "address" THEN Len(sc.txs) ELSE 1)]_vars

\* the emit for address a1 has failed in a scan that is now at a2: the events
\* and the checkpoint of a1 are in the store, a1 has no notification
C21_Witness ==
    /\ env = {"bus"}
    /\ events["a1"][1] >= 1
    /\ wa["a1"].lastCheckedBlock >= 1
    /\ emitsNew["a1"] = 0
    /\ \E sc \in Running : /\ sc.path = "address" /\ sc.pc = "fetch"
                           /\ Len(sc.rows) = 1 /\ Head(sc.rows).key = "a2"
                           /\ sc.count > 0

\* the active flag of path p
PathActive(p) ==
    IF p = "address" THEN addressPollingActive ELSE transactionPollingActive

\* C22: when the query for the active rows fails the scan throws to its
\* caller.  A timer callback and the initial scan of a path start catch it:
\* nothing is thrown further, the path is as active as before and its timer
\* runs on.  manualPoll throws it on to its own caller (and runs no further
\* scan).  Nothing is written or emitted.
C22_SelectFailureGoesToCaller ==
    [][\A sc \in Running :
          sc.pc = "select" /\ SelectFails(sc) =>
              /\ UNCHANGED <<storeVars, busVars>>
              /\ sc.origin = "manualPoll" =>
                    /\ \E new \in BagToSet(scans') :
                          /\ scans' = Moved(sc, new)
                          /\ new.pc = "throw" /\ new.origin = "manualPoll"
                    /\ UNCHANGED supVars
              /\ sc.origin # "manualPoll" =>
                    /\ \A new \in BagToSet(scans') :
                          new.pc = "throw" => new \in Running
                    /\ PathActive(sc.path)' = PathActive(sc.path)
                    /\ PathActive(sc.path)'
                    /\ timers'[sc.path] = timers[sc.path]
                    /\ timers'[sc.path] > 0
                    /\ isRunning' = isRunning]_vars

\* manualPoll has thrown out of its address scan while the watcher runs with
\* both timers live
C22_Witness ==
    /\ env = {"store"}
    /\ isRunning /\ addressPollingActive /\ transactionPollingActive
    /\ \A p \in Paths : timers[p] = 1
    /\ \E sc \in Running :
          sc.pc = "throw" /\ sc.path = "address" /\ sc.origin = "manualPoll"

\* C23: manualPoll runs one address scan and then one transaction scan,
\* also when the watcher is not running, and returns the sum of the events
\* the two scans detected; isRunning, the active flags, the interval handles
\* and the timers are as they were before.  (Nothing fails in these runs: the
\* events of a row are the transactions listed for the address, or the one
\* confirmation of the submission.)
C23_ManualPollScansBothAndSums ==
    [][/\ ManualPoll =>
             /\ \E new \in BagToSet(scans') :
                   /\ scans' = Added(new)
                   /\ new.path = "address" /\ new.pc = "select"
                   /\ new.count = 0
             /\ UNCHANGED supVars
       /\ \A sc \in Running :
             sc.origin = "manualPoll" /\ ScanStep(sc) =>
                /\ UNCHANGED supVars
                /\ \E new \in BagToSet(scans') :
                      /\ scans' = Moved(sc, new)
                      /\ new.origin = "manualPoll"
                      /\ new.pc # "throw"
                      /\ new.path = "address" => sc.path = "address"
                      /\ new.pc = "return" => sc.path = "transaction"
                      /\ new.pc \notin {"fetch", "persist", "emit"}
                            \/ (new.pc = "fetch" /\ sc.pc # "select") =>
                            RowDone(sc, IF sc.pc # "emit" THEN 0
                                        ELSE IF sc.path = "address"
                                        THEN Len(sc.txs) ELSE 1)]_vars

\* manualPoll has returned 3 on a watcher that is not running and has no
\* timer: two events of the address scan and one of the transaction scan
C23_Witness ==
    /\ ~isRunning /\ ~addressPollingActive /\ ~transactionPollingActive
    /\ \A p \in Paths : timers[p] = 0
    /\ \E sc \in Running :
          /\ sc.pc = "return" /\ sc.origin = "manualPoll"
          /\ sc.addressEvents = 2 /\ sc.count = 3

\* C24: the shutdown listener is registered once per process however often
\* setup() runs: no signal ever has more than one listener, and a signal that
\* arrives stops the watcher.
C24_ShutdownHandlerOnce ==
    /\ [](\A sig \in Signals : handlers[sig] <= 1)
    /\ [][\A sig \in Signals :
             Signal(sig) => /\ ~isRunning'
                            /\ \A p \in Paths : timers'[p] = 0]_vars

\* C25: initializeClient is idempotent: once a call has constructed a client,
\* no call constructs another one or replaces it, and every later call
\* returns that client whatever configuration it is given; isAvailable() is
\* true exactly when a call has constructed a client.
C25_InitializeClientIdempotent ==
    /\ [](constructed <= 1)
    /\ [](isAvailable <=> constructed = 1)
    /\ [](isAvailable => handle = blockfrostClient)
    /\ [][isAvailable => /\ blockfrostClient' = blockfrostClient
                         /\ constructed' = constructed]_vars

\* setup() has called initializeClient with the mainnet configuration, and the
\* one client there is, the one the latest call returned, is a client
\* constructed for preprod by another call
C25_Witness ==
    /\ setupRuns >= 1
    /\ configuration.blockfrostProjectId = "p1"
    /\ configuration.network = "mainnet"
    /\ blockfrostClient.network = "preprod"
    /\ handle = blockfrostClient
    /\ constructed = 1

\* C26: getTransaction returns none only for a transaction that is not on
\* chain yet: a provider call that fails is not answered with none, so the
\* transaction poller does not take a failure for 'still pending'.
C26_NoneOnlyWhenNotOnChain ==
    [][\A sc \in Running :
          /\ FetchSubmission(sc)
          /\ \E new \in BagToSet(scans') :
                scans' = Moved(sc, new) /\ new.txInfo = "null"
          => tip < InclusionBlock(Head(sc.rows).key)]_vars

C28_Status == StatusCodeOf(err)

\* the class the priority order of the normalization policy gives to err
C28_Class ==
    LET message == MessageOf(err) IN
    IF err \in BackendErrors THEN err.class
    ELSE IF C28_Status = 429
            \/ \E i \in DOMAIN message :
                  message[i] \in {"rate limit", "Too Many Requests"}
    THEN "RateLimitError"
    ELSE IF C28_Status = 404 \/ \E i \in DOMAIN message : message[i] = "not found"
    THEN "NotFoundError"
    ELSE "ProviderUnavailableError"

\* err is a raw error that none of the rules before the last one matches
C28_Unknown ==
    /\ err \in RawErrors
    /\ C28_Status = 0
    /\ err.code = "-"
    /\ \A i \in DOMAIN err.message : err.message[i] = "boom"

C29_InitializedAtMostOnce ==
    /\ setupRuns <= 1
    /\ pluginRuns <= 1

\* the scans that path starts run
StartOrigins == {"start", "startPolling"}

\* C30: a path start on an inactive path runs one scan of its path at once,
\* and returns when that scan is over: the step that makes a path active
\* adds exactly one scan, of that path, at its first step; start() makes the
\* transaction path active in the step in which its address scan ends, not
\* before; and the scan of a path start goes away only by a step of its own.
C30_PathStartScansOnceAndWaits ==
    [][/\ addressPollingActive' /\ ~addressPollingActive =>
             /\ \E o \in StartOrigins : scans' = Added(NewScan("address", o, 0))
             /\ transactionPollingActive' = transactionPollingActive
       /\ transactionPollingActive' /\ ~transactionPollingActive =>
             /\ \/ \E o \in StartOrigins :
                      scans' = Added(NewScan("transaction", o, 0))
                \/ \E sc \in Running :
                      /\ sc.origin = "start" /\ sc.path = "address"
                      /\ ScanStep(sc)
                      /\ scans' = Moved(sc, NewScan("transaction", "start", 0))
             /\ addressPollingActive' = addressPollingActive
       /\ \A sc \in Running :
             sc.origin \in StartOrigins /\ sc \notin BagToSet(scans') =>
                ScanStep(sc)]_vars

\* start() has come back from startAddressPolling(), whose scan has recorded
\* the transaction of block 1, and is in the initial scan of the transaction
\* path
C30_Witness ==
    /\ isRunning /\ addressPollingActive /\ transactionPollingActive
    /\ events["a1"][1] = 1
    /\ \E sc \in Running : sc.origin = "start" /\ sc.path = "transaction"
    /\ \A sc \in Running : sc.path # "address"

\* C31: over address scan cycles that do not overlap, whatever fails, a
\* transaction of a watched address has at most one BlockchainEvent of type
\* TRANSACTION for that address: once it is recorded no later cycle inserts
\* it again, and no step of the watcher takes an event row away.
C31_TransactionRecordedOnce ==
    /\ [](\A a \in Addrs, t \in TxIds : events[a][t] <= 1)
    /\ [][\A a \in Addrs, t \in TxIds :
             /\ events'[a][t] >= events[a][t]
             /\ events[a][t] = 1 => events'[a][t] = 1]_vars

\* two cycles have recorded one transaction each, with one notification each,
\* and a third scan has the address at work again
C31_Witness ==
    /\ events["a1"][1] = 1 /\ events["a1"][2] = 1
    /\ emitsNew["a1"] = 2
    /\ wa["a1"].lastCheckedBlock = 2
    /\ \E sc \in Running : /\ sc.path = "address" /\ sc.pc = "fetch"
                           /\ Head(sc.rows).lastCheckedBlock = 2

\* C32: a transaction scan asks the provider only about submissions that are
\* active and PENDING: no scan holds the provider's answer for a row that it
\* has read as CONFIRMED.
C32_OnlyPendingQueried ==
    \A sc \in Running :
        (sc.path = "transaction" /\ sc.pc = "persist") =>
            /\ subs[Head(sc.rows).key].active
            /\ Head(sc.rows).currentStatus = "PENDING"

\* the BlockchainEvent rows of the store
RECURSIVE SumOver(_, _)
SumOver(f, S) ==
    IF S = {} THEN 0
    ELSE LET x == CHOOSE y \in S : TRUE IN f[x] + SumOver(f, S \ {x})

CommittedEvents ==
    SumOver([a \in Addrs |-> SumOver(events[a], TxIds)], Addrs)
        + SumOver(subEvents, Hashes)

\* what manualPoll will return if nothing more is detected: the counts it
\* carries, and the events of the row at work that are committed and not yet
\* added
Counted(sc) ==
    IF Ended(sc) THEN sc.count
    ELSE sc.count + sc.addressEvents
            + (IF sc.pc # "emit" THEN 0
               ELSE IF sc.path = "address" THEN Len(sc.txs) ELSE 1)

\* C33: the count a scan returns is the number of BlockchainEvent rows
\* committed during the scan: every step of a scan of manualPoll that does not
\* throw raises the count by the number of rows the step has committed, so a
\* row whose persistence failed adds 0.
C33_CountIsCommittedEvents ==
    [][\A sc \in Running :
          ScanStep(sc) =>
              \E new \in BagToSet(scans') :
                  /\ scans' = Moved(sc, new)
                  /\ new.pc # "throw" =>
                        Counted(new) - Counted(sc)
                            = CommittedEvents' - CommittedEvents]_vars

\* C34: the cds.tx of an address commits all or nothing: a step of a scan at
\* the transaction of address k either leaves events, Transaction rows and
\* checkpoint as they are, or inserts one event and one Transaction row for
\* each of the N listed transactions and sets the checkpoint to their greatest
\* block.  Likewise a submission gets the status CONFIRMED in the step that
\* inserts its event, and in no other step of a scan.
C34_TransactionsAtomic ==
    [][\A sc \in Running :
          (ScanStep(sc) /\ sc.pc = "persist") =>
              LET k == Head(sc.rows).key IN
              IF sc.path = "address"
              THEN \/ UNCHANGED <<events, txRows, wa>>
                   \/ /\ \A t \in TxIds :
                            LET n == IF \E i \in DOMAIN sc.txs : sc.txs[i] = t
                                     THEN 1 ELSE 0
                            IN  /\ events'[k][t] = events[k][t] + n
                                /\ txRows'[k][t] = txRows[k][t] + n
                      /\ wa'[k].lastCheckedBlock = MaxBlock(sc.txs)
              ELSE /\ subEvents'[k] \in {subEvents[k], subEvents[k] + 1}
                   /\ (/\ subs'[k].currentStatus = "CONFIRMED"
                       /\ subs[k].currentStatus # "CONFIRMED")
                          <=> subEvents'[k] = subEvents[k] + 1]_vars

\* the store fails at times: the transaction of a1 has failed (the row has
\* added to the count and left nothing behind) and that of a2 has committed
\* its two events, two Transaction rows and the checkpoint
C34_Witness ==
    /\ env = {"store"}
    /\ \A t \in TxIds : events["a1"][t] = 0 /\ txRows["a1"][t] = 0
    /\ wa["a1"].lastCheckedBlock = NoBlock
    /\ events["a2"][1] = 1 /\ events["a2"][2] = 1
    /\ txRows["a2"][1] = 1 /\ txRows["a2"][2] = 1
    /\ wa["a2"].lastCheckedBlock = 2
    /\ \E sc \in Running : /\ sc.pc = "emit" /\ Head(sc.rows).key = "a2"
                           /\ Len(sc.txs) = 2 /\ sc.count >= 1

\* C35: the checkpoint of an address is below the block of every transaction
\* on chain for which the address has no BlockchainEvent: a transaction whose
\* detail fetch failed stays above the checkpoint and is listed again.
C35_CheckpointBelowUnrecorded ==
    \A a \in Addrs, t \in 1..tip :
        events[a][t] = 0 => wa[a].lastCheckedBlock < BlockOf(t)

\* C36: while address polling is active and the provider answers every call,
\* a transaction on chain above the checkpoint of the active address a1 is
\* recorded in the end and its notification emitted, also when the address
\* has more transactions than one page of the listing holds.
C36_EveryTransactionDetected ==
    \A t \in TxIds :
        (/\ addressPollingActive /\ "provider" \notin env
         /\ t <= tip /\ wa["a1"].lastCheckedBlock < BlockOf(t))
            ~> (/\ events["a1"][t] >= 1
                /\ \A sc \in Running : sc.path = "address" => sc.pc # "emit")

\* C37: while transaction polling is active, once the provider reports the
\* active submission h1 as found on every call (it is on chain and no provider
\* call fails any more), h1 reaches the status CONFIRMED and has it in every
\* later state.  (The runs in which the failures of the provider have had the
\* submission confirmed MaxCount times before are left out.)
C37_FoundIsConfirmedForGood ==
    (/\ transactionPollingActive /\ subs["h1"].active
     /\ "provider" \notin env /\ tip >= InclusionBlock("h1")
     /\ subEvents["h1"] < MaxCount)
        ~> [](subs["h1"].currentStatus = "CONFIRMED")

\* the provider has failed and recovered: h1 was confirmed, set back to
\* PENDING by a call that failed, confirmed again, and a later scan that has
\* found it leaves it CONFIRMED
C37_Witness ==
    /\ "provider" \notin env /\ transactionPollingActive
    /\ subs["h1"].currentStatus = "CONFIRMED"
    /\ subEvents["h1"] = 2
    /\ \E sc \in Running : /\ sc.path = "transaction" /\ sc.pc = "persist"
                           /\ sc.origin = "tick" /\ sc.txInfo = "found"
                           /\ Head(sc.rows).currentStatus = "CONFIRMED"

\* C38: in every state the address timer handle is non-null exactly when
\* addressPollingActive is true, and the transaction timer handle is non-null
\* exactly when transactionPollingActive is true.
C38_HandleIffActive ==
    /\ (addressInterval # Null) <=> addressPollingActive
    /\ (transactionInterval # Null) <=> transactionPollingActive

\* both paths were started; the address path has been stopped while the
\* transaction path is active and the scan of the address path is in flight
C38_Witness ==
    /\ ~addressPollingActive /\ addressInterval = Null
    /\ transactionPollingActive /\ transactionInterval = "timer"
    /\ \E sc \in Running : sc.path = "address" /\ ~Ended(sc)

\* C39: whenever a polling path is active and no start call is in progress
\* (none awaits its initial scan; stop() does not wait for anything),
\* isRunning is true, so stop() stops the path.
C39_ActiveImpliesRunning ==
    (/\ addressPollingActive \/ transactionPollingActive
     /\ \A sc \in Running : sc.origin \notin {"start", "startPolling"})
        => isRunning

\* C40: after every sequence of config.initialize and config.update calls the
\* stored network is one of the valid networks, and a call that throws a
\* validation error leaves the stored configuration as it was.
C40_RejectedLeavesConfiguration ==
    /\ [](configuration.network \in validNetworks)
    /\ [][err' # NoError => configuration' = configuration]_vars

====
